---- MODULE Spec2Model ----
(***************************************************************************)
(* Model of common/task_executor/src/lib.rs: the TaskExecutor facade, its  *)
(* spawn contracts (spawn, spawn_handle, spawn_without_exit,               *)
(* spawn_blocking, spawn_blocking_handle) and the panic monitor            *)
(* (spawn_monitor), together with the engine (tokio runtime), the exit     *)
(* signal and the shutdown channel they act on.                            *)
(***************************************************************************)
EXTENDS Integers, Sequences, FiniteSets, TLC

\* ------------------------------------------------------------------ bounds
\* Number of spawn calls made on the facade in one behaviour.
MaxUnits == 1
\* Number of reasons the shutdown channel holds before try_send is refused.
ChanCap == 1
\* Number of facades in one behaviour: the one TaskExecutor::new built and the
\* ones clone_with_name derived from it.
MaxFacades == 2

UnitIds == 1..MaxUnits
\* Task names (`name: &'static str`), the key of the metrics.
Names == {"a", "b"}
\* Service names given to clone_with_name.
Services == {"sync", "net"}

AsyncKinds == {"spawn", "spawn_handle", "spawn_without_exit"}
BlockingKinds == {"spawn_blocking", "spawn_blocking_handle"}
\* spawn and spawn_handle race the task against the exit signal.
ExitCoupledKinds == {"spawn", "spawn_handle"}
\* spawn and spawn_blocking hand the join handle to spawn_monitor.
MonitoredKinds == {"spawn", "spawn_blocking"}

\* ------------------------------------------------------------- data types
\* ShutdownReason::Success(msg) | ShutdownReason::Failure(msg)
Success(m) == [tag |-> "Success", msg |-> m]
Failure(m) == [tag |-> "Failure", msg |-> m]

\* ShutdownReason::message
message(r) == r.msg

\* Reasons a subsystem sends through shutdown_sender() on its own account.
SubsystemReasons == {Failure("disk full"), Success("done")}

\* Panic payloads (Box<dyn Any>): a &'static str (panic!("literal")), or any
\* other type (a String from a formatted panic!, a custom value).
NoPayload == [isStr |-> FALSE, text |-> "-"]
Payloads == {[isStr |-> TRUE, text |-> "boom"], [isStr |-> FALSE, text |-> "fmt"]}

\* A logger's context: the key/value pairs its ancestors were derived with,
\* oldest first. The logger given to TaskExecutor::new has none of its own.
RootLogger == <<>>

\* Logger::new(o!(key => value)): a child logger, the parent is not touched.
LoggerNew(logger, key, value) == Append(logger, <<key, value>>)

\* TaskExecutor::new(runtime, exit, log, signal_tx) as the process calls it
\* once: the engine, the exit signal and the shutdown channel are named by
\* the handles the facade holds to them.
RootFacade ==
    [runtime |-> "runtime", exit |-> "exit", signal_tx |-> "signal_tx",
     log |-> RootLogger]

\* fn runtime(&self) -> Weak<Runtime>
runtime(self) == self.runtime

\* fn exit(&self) -> exit_future::Exit
exitDetached(self) == "detached"

exit(self) == self.exit

\* fn shutdown_sender(&self) -> Sender<ShutdownReason>
shutdown_sender(self) == self.signal_tx

\* fn clone_with_name(&self, service_name: String) -> Self
clone_with_name_unnamed(self, service_name) == self

clone_with_name_own_exit(self, service_name) ==
    [runtime |-> self.runtime, exit |-> "detached", signal_tx |-> self.signal_tx,
     log |-> LoggerNew(self.log, "service", service_name)]

clone_with_name(self, service_name) ==
    [runtime |-> self.runtime, exit |-> self.exit, signal_tx |-> self.signal_tx,
     log |-> LoggerNew(self.log, "service", service_name)]

\* A slot of `units` no spawn call has used yet.
FreeUnit ==
    [kind |-> "free", name |-> "-", exit |-> "-", logger |-> <<>>,
     gaugeOk |-> FALSE, engineUp |-> FALSE,
     exitAtCall |-> FALSE, st |-> "free", task |-> "pending", payload |-> NoPayload,
     result |-> "-", sawExit |-> FALSE, mon |-> "absent", offered |-> <<>>,
     ainc |-> 0, adec |-> 0, binc |-> 0, bdec |-> 0]

VARIABLES
    runtimeAlive,   \* self.runtime.upgrade() succeeds
    exitFired,      \* the exit_future::Exit every facade clone holds has resolved
    channel,        \* reasons accepted by signal_tx and not yet received
    received,       \* reasons the shutdown coordinator has taken off the channel
    asyncGauge,     \* ASYNC_TASKS_COUNT, per task name
    blockingGauge,  \* BLOCKING_TASKS_COUNT, per task name
    histCount,      \* BLOCKING_TASKS_HISTOGRAM: observations, per task name
    log,            \* entries emitted through slog
    units,          \* one record per spawn call made so far
    facades,        \* the TaskExecutor values that exist, the first one first
    receiverOpen    \* the coordinator still holds the Receiver of the channel

vars == <<runtimeAlive, exitFired, channel, received, asyncGauge, blockingGauge,
          histCount, log, units, facades, receiverOpen>>

Init ==
    /\ runtimeAlive = TRUE
    /\ exitFired = FALSE
    /\ channel = <<>>
    /\ received = <<>>
    /\ asyncGauge = [n \in Names |-> 0]
    /\ blockingGauge = [n \in Names |-> 0]
    /\ histCount = [n \in Names |-> 0]
    /\ log = {}
    /\ units = [u \in UnitIds |-> FreeUnit]
    /\ facades = <<RootFacade>>
    /\ receiverOpen = TRUE

\* ------------------------------------------------------------- helpers
LogEntry(level, text, task, msg) ==
    [level |-> level, text |-> text, task |-> task, message |-> msg]

\* The next call takes the lowest unused slot.
NextFree(u) == units[u].kind = "free" /\ \A v \in UnitIds : v < u => units[v].kind # "free"

Bump(g, n, d) == [g EXCEPT ![n] = @ + d]

\* Weak<Runtime>::upgrade() on the reference a facade holds.
Upgrade(weak) == weak = RootFacade.runtime /\ runtimeAlive

\* An exit receiver is resolved once the signal it is a clone of has fired.
ExitResolved(e) == e = RootFacade.exit /\ exitFired

FacadeIds == 1..Len(facades)

\* self.runtime.upgrade() is Some, for the facade the call is made on.
Alive(f) == Upgrade(runtime(facades[f]))

\* A subsystem derives its own facade from one it holds.
CloneWithName(f, service_name) ==
    /\ Len(facades) < MaxFacades
    /\ facades' = Append(facades, clone_with_name(facades[f], service_name))
    /\ UNCHANGED <<runtimeAlive, exitFired, channel, received, asyncGauge,
                   blockingGauge, histCount, log, units, receiverOpen>>

\* ------------------------------------------------- metrics and logging
\* metrics::get_int_gauge(..) is Some, then int_gauge.inc(): the increment is
\* made before self.runtime.upgrade() is tried.
AsyncIncForgotten(gaugeOk, alive) == 0

AsyncIncWithMonitor(gaugeOk, alive) == IF gaugeOk THEN 2 ELSE 0

AsyncInc(gaugeOk, alive) == IF gaugeOk THEN 1 ELSE 0

\* The task reaches runtime.spawn only inside `if let Some(int_gauge)` and
\* `if let Some(runtime)`.
AsyncDispatched(gaugeOk, alive) == gaugeOk /\ alive

\* metrics::inc_gauge_vec(&BLOCKING_TASKS_COUNT, ..) precedes the upgrade.
BlockingInc(alive) == 1

\* runtime.spawn_blocking(task) is reached only when the upgrade succeeds.
BlockingDispatched(alive) == alive

\* On the early `return None` the timer is dropped, which observes.
BlockingEarlyObserve(alive) == IF alive THEN 0 ELSE 1

\* debug!(self.log, "Couldn't spawn task. Runtime shutting down")
CouldNotSpawnLog(reached, alive) ==
    IF reached /\ ~alive
    THEN {LogEntry("debug", "Couldn't spawn task. Runtime shutting down", "-", "-")}
    ELSE {}

\* spawn_monitor: the monitor task is spawned when the upgrade succeeds.
MonitorSpawned(alive) == IF alive THEN "waiting" ELSE "absent"

\* ------------------------------------------------------- spawn contracts
\* spawn_handle(task, name)
NewAsyncUnit(self, kind, name, gaugeOk, alive) ==
    [FreeUnit EXCEPT
        !.kind = kind, !.name = name, !.gaugeOk = gaugeOk, !.engineUp = alive,
        !.exit = exit(self), !.logger = self.log,
        !.exitAtCall = exitFired,
        !.st = IF AsyncDispatched(gaugeOk, alive) THEN "running" ELSE "notrun",
        !.ainc = AsyncInc(gaugeOk, alive)]

\* spawn_blocking_handle(task, name)
NewBlockingUnit(self, kind, name, alive) ==
    [FreeUnit EXCEPT
        !.kind = kind, !.name = name, !.gaugeOk = TRUE, !.engineUp = alive,
        !.logger = self.log,
        !.exitAtCall = exitFired,
        !.st = IF BlockingDispatched(alive) THEN "running" ELSE "notrun",
        !.binc = BlockingInc(alive)]

SpawnHandle(f, u, name, gaugeOk) ==
    /\ f \in FacadeIds
    /\ NextFree(u)
    /\ units' = [units EXCEPT ![u] =
                    NewAsyncUnit(facades[f], "spawn_handle", name, gaugeOk, Alive(f))]
    /\ asyncGauge' = Bump(asyncGauge, name, AsyncInc(gaugeOk, Alive(f)))
    /\ log' = log \cup CouldNotSpawnLog(gaugeOk, Alive(f))
    /\ UNCHANGED <<facades, receiverOpen>>
    /\ UNCHANGED <<runtimeAlive, exitFired, channel, received, blockingGauge, histCount>>

\* spawn(task, name): spawn_handle, then spawn_monitor on the handle it returns.
Spawn(f, u, name, gaugeOk) ==
    /\ f \in FacadeIds
    /\ NextFree(u)
    /\ LET r == NewAsyncUnit(facades[f], "spawn", name, gaugeOk, Alive(f)) IN
       units' = [units EXCEPT ![u] =
                    [r EXCEPT !.mon = IF r.st = "running"
                                      THEN MonitorSpawned(Alive(f))
                                      ELSE "absent"]]
    /\ asyncGauge' = Bump(asyncGauge, name, AsyncInc(gaugeOk, Alive(f)))
    /\ log' = log \cup CouldNotSpawnLog(gaugeOk, Alive(f))
    /\ UNCHANGED <<facades, receiverOpen>>
    /\ UNCHANGED <<runtimeAlive, exitFired, channel, received, blockingGauge, histCount>>

\* spawn_without_exit(task, name)
SpawnWithoutExit(f, u, name, gaugeOk) ==
    /\ f \in FacadeIds
    /\ NextFree(u)
    /\ units' = [units EXCEPT ![u] =
                    NewAsyncUnit(facades[f], "spawn_without_exit", name, gaugeOk, Alive(f))]
    /\ asyncGauge' = Bump(asyncGauge, name, AsyncInc(gaugeOk, Alive(f)))
    /\ log' = log \cup CouldNotSpawnLog(gaugeOk, Alive(f))
    /\ UNCHANGED <<facades, receiverOpen>>
    /\ UNCHANGED <<runtimeAlive, exitFired, channel, received, blockingGauge, histCount>>

SpawnBlockingHandle(f, u, name) ==
    /\ f \in FacadeIds
    /\ NextFree(u)
    /\ units' = [units EXCEPT ![u] =
                    NewBlockingUnit(facades[f], "spawn_blocking_handle", name, Alive(f))]
    /\ blockingGauge' = Bump(blockingGauge, name, BlockingInc(Alive(f)))
    /\ histCount' = Bump(histCount, name, BlockingEarlyObserve(Alive(f)))
    /\ log' = log \cup CouldNotSpawnLog(TRUE, Alive(f))
    /\ UNCHANGED <<facades, receiverOpen>>
    /\ UNCHANGED <<runtimeAlive, exitFired, channel, received, asyncGauge>>

\* spawn_blocking(task, name): spawn_blocking_handle, then spawn_monitor on the
\* future it returns.
SpawnBlocking(f, u, name) ==
    /\ f \in FacadeIds
    /\ NextFree(u)
    /\ LET r == NewBlockingUnit(facades[f], "spawn_blocking", name, Alive(f)) IN
       units' = [units EXCEPT ![u] =
                    [r EXCEPT !.mon = IF r.st = "running"
                                      THEN MonitorSpawned(Alive(f))
                                      ELSE "absent"]]
    /\ blockingGauge' = Bump(blockingGauge, name, BlockingInc(Alive(f)))
    /\ histCount' = Bump(histCount, name, BlockingEarlyObserve(Alive(f)))
    /\ log' = log \cup CouldNotSpawnLog(TRUE, Alive(f))
    /\ UNCHANGED <<facades, receiverOpen>>
    /\ UNCHANGED <<runtimeAlive, exitFired, channel, received, asyncGauge>>

\* ------------------------------------------------------ the task itself
\* The caller's future (or closure) reaches the point where its next poll (or
\* its run on the blocking pool) returns a value or panics with a payload.
TaskReady(u, t, p) ==
    /\ units[u].st = "running"
    /\ units[u].task = "pending"
    /\ (t = "value") = (p = NoPayload)
    /\ units' = [units EXCEPT ![u].task = t, ![u].payload = p]
    /\ UNCHANGED <<facades, receiverOpen>>
    /\ UNCHANGED <<runtimeAlive, exitFired, channel, received, asyncGauge,
                   blockingGauge, histCount, log>>

\* ---------------------------------------------------- the wrapper futures
\* future::select(Box::pin(task), exit): the task is polled first, the exit
\* signal only when the task is pending. A panic of the task unwinds through
\* the wrapper.
SelectOutcomeExitFirst(task, fired) ==
    CASE fired -> "None"
      [] task = "value" -> "Some"
      [] task = "panic" -> "Panic"
      [] OTHER -> "Pending"

SelectOutcomeSwapped(task, fired) ==
    CASE task = "value" -> "None"
      [] task = "panic" -> "Panic"
      [] task = "pending" /\ fired -> "Some"
      [] OTHER -> "Pending"

SelectOutcome(task, fired) ==
    CASE task = "value" -> "Some"
      [] task = "panic" -> "Panic"
      [] task = "pending" /\ fired -> "None"
      [] OTHER -> "Pending"

\* task.then(..) of spawn_without_exit: the exit signal is not looked at.
ThenOutcomeRaced(task, fired) ==
    CASE task = "value" -> "Some"
      [] task = "panic" -> "Panic"
      [] task = "pending" /\ fired -> "None"
      [] OTHER -> "Pending"

ThenOutcome(task, fired) ==
    CASE task = "value" -> "Some"
      [] task = "panic" -> "Panic"
      [] OTHER -> "Pending"

\* int_gauge_1.dec() sits in the closure given to `then`, which runs only
\* when the wrapped future resolves: not when it unwinds.
WrapperDec(outcome) == IF outcome \in {"Some", "None"} THEN 1 ELSE 0

\* trace!(log, "Async task completed") / debug!(log, "Async task shutdown, ..")
WrapperLog(outcome, name) ==
    CASE outcome = "Some" -> {LogEntry("trace", "Async task completed", name, "-")}
      [] outcome = "None" ->
            {LogEntry("debug", "Async task shutdown, exit received", name, "-")}
      [] OTHER -> {}

\* The engine polls the wrapper spawn_handle built.
PollExitCoupled(u) ==
    LET r == units[u]
        out == SelectOutcome(r.task, ExitResolved(r.exit))
    IN  /\ r.kind \in ExitCoupledKinds
        /\ r.st = "running"
        /\ out # "Pending"
        /\ units' = [units EXCEPT ![u].st = "done", ![u].result = out,
                                  ![u].sawExit = exitFired,
                                  ![u].adec = @ + WrapperDec(out)]
        /\ asyncGauge' = Bump(asyncGauge, r.name, 0 - WrapperDec(out))
        /\ log' = log \cup WrapperLog(out, r.name)
        /\ UNCHANGED <<facades, receiverOpen>>
        /\ UNCHANGED <<runtimeAlive, exitFired, channel, received, blockingGauge,
                       histCount>>

\* The engine polls the wrapper spawn_without_exit built.
PollWithoutExit(u) ==
    LET r == units[u]
        out == ThenOutcome(r.task, exitFired)
    IN  /\ r.kind = "spawn_without_exit"
        /\ r.st = "running"
        /\ out # "Pending"
        /\ units' = [units EXCEPT ![u].st = "done", ![u].result = out,
                                  ![u].sawExit = exitFired,
                                  ![u].adec = @ + WrapperDec(out)]
        /\ asyncGauge' = Bump(asyncGauge, r.name, 0 - WrapperDec(out))
        /\ UNCHANGED <<facades, receiverOpen>>
        /\ UNCHANGED <<runtimeAlive, exitFired, channel, received, blockingGauge,
                       histCount, log>>

\* join_handle.await of the blocking future: Ok(result) or Err(e).
JoinOfTask(task) ==
    CASE task = "value" -> "Some"
      [] task = "panic" -> "Panic"
      [] task = "cancelled" -> "Cancelled"
      [] OTHER -> "Pending"

\* metrics::dec_gauge_vec(&BLOCKING_TASKS_COUNT, ..) follows the match, on
\* both of its arms.
BlockingDecOkOnly(join) == IF join = "Some" THEN 1 ELSE 0

BlockingDec(join) == 1

\* drop(timer) follows the match, on both of its arms.
BlockingObserve(join) == 1

\* trace!(log, "Blocking task completed") / debug!(log, "Blocking task ended ..")
BlockingLog(join, name) ==
    IF join = "Some"
    THEN {LogEntry("trace", "Blocking task completed", name, "-")}
    ELSE {LogEntry("debug", "Blocking task ended unexpectedly", "-", join)}

\* The unit's record once the future spawn_blocking_handle returned resolves.
BlockingResolved(r, join) ==
    [r EXCEPT !.st = "done", !.result = join, !.sawExit = exitFired,
              !.bdec = @ + BlockingDec(join)]

\* The caller of spawn_blocking_handle awaits the future it was given.
CallerAwait(u) ==
    LET r == units[u]
        join == JoinOfTask(r.task)
    IN  /\ r.kind = "spawn_blocking_handle"
        /\ r.st = "running"
        /\ join # "Pending"
        /\ units' = [units EXCEPT ![u] = BlockingResolved(r, join)]
        /\ blockingGauge' = Bump(blockingGauge, r.name, 0 - BlockingDec(join))
        /\ histCount' = Bump(histCount, r.name, BlockingObserve(join))
        /\ log' = log \cup BlockingLog(join, r.name)
        /\ UNCHANGED <<facades, receiverOpen>>
        /\ UNCHANGED <<runtimeAlive, exitFired, channel, received, asyncGauge>>

\* ------------------------------------------------------ the panic monitor
PanicMessage == "Panic (fatal error)"

\* panic.downcast_ref::<&str>().unwrap_or(&"<none>")
ExtractMessage(p) == IF p.isStr THEN p.text ELSE "<none>"

\* `if let Err(join_error)` and `if let Ok(panic) = join_error.try_into_panic()`
IsPanicJoinAnyErr(join) == join \in {"Panic", "Cancelled"}

IsPanicJoin(join) == join = "Panic"

MonitorOffersRetry(join, p) ==
    IF IsPanicJoin(join)
    THEN <<Failure(PanicMessage), Failure(PanicMessage)>>
    ELSE <<>>

MonitorOffersNever(join, p) == <<>>

MonitorOffersDiagnostic(join, p) ==
    IF IsPanicJoin(join) THEN <<Failure(ExtractMessage(p))>> ELSE <<>>

\* The reasons the monitor hands to try_send for one join result.
MonitorOffers(join, p) ==
    IF IsPanicJoin(join) THEN <<Failure(PanicMessage)>> ELSE <<>>

\* crit!(log, "Task panic. This is a bug!"; "task_name" => name, "message" => ..)
MonitorLog(join, name, p) ==
    IF IsPanicJoin(join)
    THEN {LogEntry("crit", "Task panic. This is a bug!", name, ExtractMessage(p))}
    ELSE {}

\* Sender::try_send: the reason is queued when the channel is open and has
\* room; otherwise try_send returns an Err, which `let _ =` discards.
TrySendUnchecked(ch, r) == Append(ch, r)

TrySend(ch, r) == IF receiverOpen /\ Len(ch) < ChanCap THEN Append(ch, r) ELSE ch

RECURSIVE TrySendAll(_, _)
TrySendAll(ch, rs) ==
    IF rs = <<>> THEN ch ELSE TrySendAll(TrySend(ch, Head(rs)), Tail(rs))

\* The monitor of a spawn: task_handle is the JoinHandle of the wrapper.
MonitorAsync(u) ==
    LET r == units[u]
        offers == MonitorOffers(r.result, r.payload)
    IN  /\ r.kind = "spawn"
        /\ r.mon = "waiting"
        /\ r.st = "done"
        /\ units' = [units EXCEPT ![u].mon = "done", ![u].offered = @ \o offers]
        /\ channel' = TrySendAll(channel, offers)
        /\ log' = log \cup MonitorLog(r.result, r.name, r.payload)
        /\ UNCHANGED <<facades, receiverOpen>>
        /\ UNCHANGED <<runtimeAlive, exitFired, received, asyncGauge, blockingGauge,
                       histCount>>

\* The monitor of a spawn_blocking: task_handle is the future
\* spawn_blocking_handle returned, which resolves inside the monitor's poll.
MonitorBlocking(u) ==
    LET r == units[u]
        join == JoinOfTask(r.task)
        offers == MonitorOffers(join, r.payload)
    IN  /\ r.kind = "spawn_blocking"
        /\ r.mon = "waiting"
        /\ r.st = "running"
        /\ join # "Pending"
        /\ units' = [units EXCEPT ![u] =
                        [BlockingResolved(r, join) EXCEPT
                            !.mon = "done", !.offered = @ \o offers]]
        /\ blockingGauge' = Bump(blockingGauge, r.name, 0 - BlockingDec(join))
        /\ histCount' = Bump(histCount, r.name, BlockingObserve(join))
        /\ channel' = TrySendAll(channel, offers)
        /\ log' = log \cup BlockingLog(join, r.name)
                      \cup MonitorLog(join, r.name, r.payload)
        /\ UNCHANGED <<facades, receiverOpen>>
        /\ UNCHANGED <<runtimeAlive, exitFired, received, asyncGauge>>

\* ------------------------------------------- shutdown channel and signal
\* A subsystem requests shutdown through the sender shutdown_sender() gave it.
SubsystemSend(r) ==
    /\ receiverOpen
    /\ Len(channel) < ChanCap
    /\ channel' = TrySend(channel, r)
    /\ UNCHANGED <<facades, receiverOpen>>
    /\ UNCHANGED <<runtimeAlive, exitFired, received, asyncGauge, blockingGauge,
                   histCount, log, units>>

\* The shutdown coordinator takes the first reason off the channel and fires
\* the exit signal; reasons sent later stay in the channel.
CoordinatorRecv ==
    /\ channel # <<>>
    /\ received = <<>>
    /\ received' = <<Head(channel)>>
    /\ channel' = Tail(channel)
    /\ exitFired' = TRUE
    /\ UNCHANGED <<facades, receiverOpen>>
    /\ UNCHANGED <<runtimeAlive, asyncGauge, blockingGauge, histCount, log, units>>

\* The coordinator, having acted on a reason, lets go of the receiving end:
\* the channel is closed and what it still held is discarded.
CoordinatorDrop ==
    /\ receiverOpen
    /\ received # <<>>
    /\ receiverOpen' = FALSE
    /\ channel' = <<>>
    /\ UNCHANGED <<runtimeAlive, exitFired, received, asyncGauge, blockingGauge,
                   histCount, log, units, facades>>

\* --------------------------------------------------------- engine teardown
\* Monitors whose unit is cancelled by the teardown and that may still be
\* polled once, seeing Err(JoinError::Cancelled), before they are dropped.
RacingMonitors ==
    {u \in UnitIds : /\ units[u].mon = "waiting"
                     /\ units[u].st = "running"
                     /\ (units[u].kind = "spawn" \/ units[u].task = "pending")}

\* What the teardown leaves of one unit; `seen` says its monitor ran once more,
\* on the join error of the cancelled unit.
TornDown(r, seen) ==
    CASE r.kind \in AsyncKinds /\ r.st = "running" ->
            [r EXCEPT !.st = "dropped", !.result = "Cancelled",
                      !.sawExit = exitFired,
                      !.mon = IF r.mon # "waiting" THEN r.mon
                              ELSE IF seen THEN "done" ELSE "dropped",
                      !.offered = IF seen
                                  THEN @ \o MonitorOffers("Cancelled", r.payload)
                                  ELSE @]
      [] r.kind = "spawn_blocking" /\ r.st = "running" /\ seen ->
            [BlockingResolved([r EXCEPT !.task = "cancelled"], "Cancelled")
                EXCEPT !.mon = "done",
                       !.offered = @ \o MonitorOffers("Cancelled", r.payload)]
      [] r.kind = "spawn_blocking" /\ r.st = "running" /\ ~seen ->
            [r EXCEPT !.st = "dropped",
                      !.task = IF r.task = "pending" THEN "cancelled" ELSE r.task,
                      !.mon = IF r.mon = "waiting" THEN "dropped" ELSE r.mon]
      [] r.kind = "spawn_blocking_handle" /\ r.st = "running" ->
            [r EXCEPT !.task = IF r.task = "pending" THEN "cancelled" ELSE r.task]
      [] OTHER ->
            [r EXCEPT !.mon = IF r.mon = "waiting" THEN "dropped" ELSE r.mon]

\* The blocking futures of name n that resolve inside a monitor polled during
\* the teardown.
SeenBlocking(S, n) ==
    {u \in S : units[u].kind = "spawn_blocking" /\ units[u].name = n}

\* What the monitors polled during the teardown hand to try_send.
RECURSIVE SeenOffers(_)
SeenOffers(S) ==
    IF S = {} THEN <<>>
    ELSE LET u == CHOOSE v \in S : TRUE IN
         MonitorOffers("Cancelled", units[u].payload) \o SeenOffers(S \ {u})

\* The last strong reference to the Runtime is dropped: upgrade() fails from
\* now on and the engine cancels every task it still holds.
Teardown(S) ==
    /\ runtimeAlive
    /\ S \subseteq RacingMonitors
    /\ runtimeAlive' = FALSE
    /\ units' = [u \in UnitIds |-> TornDown(units[u], u \in S)]
    /\ blockingGauge' = [n \in Names |->
                            blockingGauge[n]
                              - Cardinality(SeenBlocking(S, n)) * BlockingDec("Cancelled")]
    /\ histCount' = [n \in Names |->
                            histCount[n]
                              + Cardinality(SeenBlocking(S, n)) * BlockingObserve("Cancelled")]
    /\ channel' = TrySendAll(channel, SeenOffers(S))
    /\ log' = log \cup UNION {BlockingLog("Cancelled", units[u].name) :
                                u \in {v \in S : units[v].kind = "spawn_blocking"}}
    /\ UNCHANGED <<facades, receiverOpen>>
    /\ UNCHANGED <<exitFired, received, asyncGauge>>

\* ------------------------------------------------------- specifications
Next ==
    \/ \E f \in FacadeIds, s \in Services : CloneWithName(f, s)
    \/ \E f \in FacadeIds, u \in UnitIds, n \in Names, g \in BOOLEAN :
            SpawnHandle(f, u, n, g)
    \/ \E f \in FacadeIds, u \in UnitIds, n \in Names, g \in BOOLEAN :
            Spawn(f, u, n, g)
    \/ \E f \in FacadeIds, u \in UnitIds, n \in Names, g \in BOOLEAN :
            SpawnWithoutExit(f, u, n, g)
    \/ \E f \in FacadeIds, u \in UnitIds, n \in Names : SpawnBlockingHandle(f, u, n)
    \/ \E f \in FacadeIds, u \in UnitIds, n \in Names : SpawnBlocking(f, u, n)
    \/ \E u \in UnitIds : TaskReady(u, "value", NoPayload)
    \/ \E u \in UnitIds, p \in Payloads : TaskReady(u, "panic", p)
    \/ \E u \in UnitIds : PollExitCoupled(u)
    \/ \E u \in UnitIds : PollWithoutExit(u)
    \/ \E u \in UnitIds : CallerAwait(u)
    \/ \E u \in UnitIds : MonitorAsync(u)
    \/ \E u \in UnitIds : MonitorBlocking(u)
    \/ \E r \in SubsystemReasons : SubsystemSend(r)
    \/ CoordinatorRecv
    \/ CoordinatorDrop
    \/ \E S \in SUBSET UnitIds : Teardown(S)

Spec == Init /\ [][Next]_vars

\* The engine keeps polling the tasks it holds that can make progress, and the
\* coordinator keeps listening on the channel.
EngineStep ==
    \E u \in UnitIds :
        PollExitCoupled(u) \/ PollWithoutExit(u) \/ MonitorAsync(u) \/ MonitorBlocking(u)

EngineFairness == WF_vars(EngineStep) /\ WF_vars(CoordinatorRecv)

FairSpec == Spec /\ EngineFairness

\* ------------------------------------------------------------ vocabulary
Used(u) == units[u].kind # "free"
Async(u) == units[u].kind \in AsyncKinds
Blocking(u) == units[u].kind \in BlockingKinds
ExitCoupled(u) == units[u].kind \in ExitCoupledKinds
Monitored(u) == units[u].kind \in MonitoredKinds
\* The wrapper (or the blocking future) has ended of its own accord.
Ended(u) == units[u].st = "done"
NeverRun(u) == units[u].st = "notrun"
Offers(u) == Len(units[u].offered)

\* Increments less decrements made on the async gauge by the units in S.
RECURSIVE AsyncNet(_)
AsyncNet(S) ==
    IF S = {} THEN 0
    ELSE LET u == CHOOSE v \in S : TRUE IN
         units[u].ainc - units[u].adec + AsyncNet(S \ {u})

RECURSIVE AsyncIncs(_)
AsyncIncs(S) ==
    IF S = {} THEN 0
    ELSE LET u == CHOOSE v \in S : TRUE IN units[u].ainc + AsyncIncs(S \ {u})

RECURSIVE AsyncDecs(_)
AsyncDecs(S) ==
    IF S = {} THEN 0
    ELSE LET u == CHOOSE v \in S : TRUE IN units[u].adec + AsyncDecs(S \ {u})

\* The units spawned under task name n.
Named(n) == {u \in UnitIds : Used(u) /\ units[u].name = n}

RECURSIVE SumOffers(_)
SumOffers(S) ==
    IF S = {} THEN 0
    ELSE LET u == CHOOSE v \in S : TRUE IN Offers(u) + SumOffers(S \ {u})

\* The coordinator has received a failure-tagged reason.
FailureDelivered == received # <<>> /\ received[1].tag = "Failure"

FaultedMonitored == {u \in UnitIds : Monitored(u) /\ units[u].result = "Panic"}

\* ----------------------------------------------------------------- C1
\* C1: every async spawn that dispatched a unit has incremented the unit's
\* gauge once and, once the unit has ended (value, cancellation or fault),
\* decremented it once.
C1_GaugePairedOnEveryOutcome ==
    \A u \in UnitIds :
        (Async(u) /\ Ended(u)) => (units[u].ainc = 1 /\ units[u].adec = 1)

C3_OneOfferPerFault ==
    \A u \in UnitIds :
        Monitored(u) =>
            /\ Offers(u) <= 1
            /\ (units[u].mon = "done" /\ units[u].result = "Panic")
                  => (Offers(u) = 1 /\ units[u].offered[1].tag = "Failure")

\* A fault handled by the monitor of a spawn_blocking whose offer the full
\* channel dropped.
C3_Witness ==
    \E u \in UnitIds :
        /\ units[u].kind = "spawn_blocking" /\ units[u].mon = "done"
        /\ units[u].result = "Panic" /\ Offers(u) = 1
        /\ units[u].offered[1] \notin {channel[i] : i \in 1..Len(channel)}
        /\ units[u].offered[1] \notin {received[i] : i \in 1..Len(received)}

\* ----------------------------------------------------------------- C4
\* C4: no reason is offered for a unit that returned a value or was cancelled,
\* and the reasons offered by monitors are at most the monitored units that
\* faulted.
C4_NoOfferWithoutFault ==
    /\ \A u \in UnitIds : units[u].result # "Panic" => Offers(u) = 0
    /\ SumOffers(UnitIds) <= Cardinality(FaultedMonitored)

\* A monitor that saw the exit signal win the race and sent nothing.
C4_Witness ==
    \E u \in UnitIds :
        /\ Monitored(u) /\ units[u].mon = "done"
        /\ units[u].result = "None" /\ Offers(u) = 0

\* ----------------------------------------------------------------- C5
\* C5: a spawn call made with the engine torn down runs nothing and leaves the
\* gauges of its name as they were.
C5_NoEngineNoGaugeChange ==
    /\ \A u \in UnitIds : (Used(u) /\ ~units[u].engineUp) => NeverRun(u)
    /\ \A n \in Names :
          (\A u \in UnitIds : (Used(u) /\ units[u].name = n) => ~units[u].engineUp)
              => (asyncGauge[n] = 0 /\ blockingGauge[n] = 0)

\* ----------------------------------------------------------------- C6
\* C6 (its gauge and reason clauses; the cancellation clause is C2's): once
\* the coordinator has received a Failure, one failure-tagged reason has
\* reached it, and every exit-coupled unit that was spawned on the live engine
\* before the signal fired and has ended since has its gauge contribution back
\* to 0. A unit that has ended decrements nothing any more, so a state that
\* breaks this is one from which the gauge never returns to 0.
C6_FailureCancelsEveryTask ==
    FailureDelivered =>
        /\ Len(received) = 1
        /\ \A u \in UnitIds :
              (ExitCoupled(u) /\ ~units[u].exitAtCall /\ Ended(u) /\ units[u].sawExit)
                  => (units[u].adec = units[u].ainc /\ asyncGauge[units[u].name] = 0)

\* ----------------------------------------------------------------- C7
\* C7: a blocking unit whose future has resolved, by a value, a panic or a
\* cancellation, has incremented the blocking gauge once and decremented it
\* once, and the gauge of a name is 0 when every blocking unit of that name
\* has resolved.
C7_BlockingGaugeRestored ==
    /\ \A u \in UnitIds :
          (Blocking(u) /\ Ended(u)) => (units[u].binc = 1 /\ units[u].bdec = 1)
    /\ \A n \in Names :
          (\A u \in UnitIds : (Blocking(u) /\ units[u].name = n) => Ended(u))
              => blockingGauge[n] = 0

\* A blocking closure that panicked, with the gauge of its name back to 0.
C7_Witness ==
    \E u \in UnitIds :
        /\ Blocking(u) /\ Ended(u) /\ units[u].result = "Panic"
        /\ units[u].binc = 1 /\ units[u].bdec = 1
        /\ blockingGauge[units[u].name] = 0

\* ----------------------------------------------------------------- C8
\* The unit has terminated by a panic (seen by the engine; a blocking closure's
\* panic is in its join handle before the future is polled).
Faulted(u) ==
    \/ Async(u) /\ units[u].result = "Panic"
    \/ Blocking(u) /\ units[u].task = "panic"

\* C8 as stated (its exit clause): a fault in a unit spawned by spawn,
\* spawn_without_exit or spawn_blocking leads, while the engine lives, to the
\* exit signal fired.
C8_AnyFaultShutsDown ==
    \A u \in UnitIds :
        (Faulted(u) /\ units[u].kind \in {"spawn", "spawn_without_exit", "spawn_blocking"})
            ~> (~runtimeAlive \/ exitFired)

\* C8 amended: a fault in a unit spawned by a monitored contract (spawn or
\* spawn_blocking) leads, while the engine lives, to one Failure offered to
\* the shutdown channel by its monitor and to the exit signal fired.
C8_MonitoredFaultShutsDown ==
    \A u \in UnitIds :
        (Faulted(u) /\ Monitored(u))
            ~> (~runtimeAlive \/ (exitFired /\ Offers(u) = 1))

C8_Witness ==
    \E u \in UnitIds :
        /\ Monitored(u) /\ Faulted(u) /\ units[u].mon = "done"
        /\ runtimeAlive /\ exitFired /\ Offers(u) = 1
        /\ received = <<Failure(PanicMessage)>>

\* ----------------------------------------------------------------- C9
\* C9: an async spawn made on a live engine while the registry gives no gauge
\* for the name still dispatches the task.
C9_RegistryFailureStillDispatches ==
    \A u \in UnitIds :
        (Async(u) /\ ~units[u].gaugeOk /\ units[u].engineUp) => ~NeverRun(u)

\* ---------------------------------------------------------------- C10
\* C10 as stated: every reason a monitor offers carries the diagnostic
\* extracted from the payload of the fault it reports.
C10_ReasonCarriesDiagnostic ==
    \A u \in UnitIds :
        \A i \in 1..Offers(u) :
            units[u].offered[i] = Failure(ExtractMessage(units[u].payload))

\* C10 amended: on a fault the monitor logs the diagnostic extracted from the
\* payload (its text when it is a &str, "<none>" otherwise) at the highest
\* severity with the task's name, and offers Failure("Panic (fatal error)"),
\* whatever the payload.
C10_ReasonIsFixedMessage ==
    \A u \in UnitIds :
        (Monitored(u) /\ units[u].mon = "done" /\ units[u].result = "Panic") =>
            /\ units[u].offered = <<Failure("Panic (fatal error)")>>
            /\ message(units[u].offered[1]) = "Panic (fatal error)"
            /\ LogEntry("crit", "Task panic. This is a bug!", units[u].name,
                        IF units[u].payload.isStr THEN units[u].payload.text
                        ELSE "<none>") \in log

\* A &str payload whose text is not the message of the reason offered.
C10_Witness ==
    \E u \in UnitIds :
        /\ Monitored(u) /\ units[u].mon = "done" /\ units[u].result = "Panic"
        /\ units[u].payload.isStr
        /\ Offers(u) = 1
        /\ message(units[u].offered[1]) # units[u].payload.text

\* ---------------------------------------------------------------- C11
\* C11: every step that adds a facade adds one that holds the engine reference,
\* the exit receiver and the shutdown sender of a facade that existed before
\* the step and whose logger context is that facade's followed by
\* "service" = service_name; the facades that existed before the step, their
\* logger contexts included, are as they were.
C11_CloneSharesAllButLogger ==
    [][Len(facades') # Len(facades) =>
          /\ Len(facades') = Len(facades) + 1
          /\ \A i \in 1..Len(facades) : facades'[i] = facades[i]
          /\ \E f \in 1..Len(facades), s \in Services :
                LET o == facades[f]
                    d == facades'[Len(facades')]
                IN  /\ d.runtime = o.runtime
                    /\ d.exit = o.exit
                    /\ d.signal_tx = o.signal_tx
                    /\ d.log = o.log \o << <<"service", s>> >>]_vars

\* clone_with_name("sync") was called on the first facade: the derived logger
\* has the field, the original's has not.
C11_Witness ==
    /\ Len(facades) >= 2
    /\ facades[1].log = <<>>
    /\ facades[2].log = << <<"service", "sync">> >>
    /\ facades[2].runtime = facades[1].runtime
    /\ facades[2].exit = facades[1].exit
    /\ facades[2].signal_tx = facades[1].signal_tx

\* ---------------------------------------------------------------- C12
\* C12: the exit signal is fired once the coordinator has received a reason;
\* it fires in one step only, the step in which the first reason is received,
\* and once fired it stays fired, whatever is sent afterwards; and the receiver
\* exit() returns on any facade, in any state before or after the firing, is
\* resolved exactly when the signal has fired.
C12_ExitFiresOnceAndStays ==
    /\ [](received # <<>> => exitFired)
    /\ [][exitFired => exitFired']_vars
    /\ [][exitFired' # exitFired => (received = <<>> /\ Len(received') = 1)]_vars
    /\ [](\A f \in FacadeIds : ExitResolved(exit(facades[f])) = exitFired)

\* The signal has fired, a reason sent after the firing sits in the channel,
\* and a receiver cloned before the firing and one taken from a derived facade
\* are both resolved.
C12_Witness ==
    /\ exitFired
    /\ received # <<>>
    /\ channel # <<>>
    /\ Len(facades) >= 2
    /\ ExitResolved(exit(facades[2]))
    /\ \E u \in UnitIds :
          ExitCoupled(u) /\ ~units[u].exitAtCall /\ ExitResolved(units[u].exit)

\* ---------------------------------------------------------------- C13
\* C13: once the exit signal has fired while a monitored blocking unit's
\* closure has not finished, the future of that unit resolves (or is dropped
\* with the engine), whether or not the closure ever finishes.
C13_ExitResolvesBlockingFuture ==
    \A u \in UnitIds :
        (units[u].kind = "spawn_blocking" /\ units[u].st = "running"
            /\ units[u].task = "pending" /\ exitFired)
            ~> (units[u].st # "running")

\* ---------------------------------------------------------------- C14
\* C14: a unit dispatched by spawn_without_exit is never ended by the exit
\* signal (it ends only once its own task has returned or panicked, and its
\* gauge is decremented only when the task has returned), it has no monitor,
\* no reason is ever offered for it, and while no monitored unit exists no
\* panic reason is in the channel or with the coordinator.
C14_WithoutExitNeitherRacedNorMonitored ==
    /\ \A u \in UnitIds :
          units[u].kind = "spawn_without_exit" =>
              /\ units[u].result # "None"
              /\ Ended(u) => units[u].task \in {"value", "panic"}
              /\ units[u].adec = 1 => (units[u].task = "value" /\ units[u].result = "Some")
              /\ units[u].adec <= 1
              /\ units[u].mon = "absent"
              /\ Offers(u) = 0
    /\ (\A v \in UnitIds : ~Monitored(v)) =>
          Failure(PanicMessage) \notin
              {channel[i] : i \in 1..Len(channel)} \cup {received[i] : i \in 1..Len(received)}

\* A spawn_without_exit unit that outlived the firing of the exit signal and
\* then panicked, with nothing offered.
C14_Witness ==
    \E u \in UnitIds :
        /\ units[u].kind = "spawn_without_exit"
        /\ ~units[u].exitAtCall /\ units[u].sawExit
        /\ Ended(u) /\ units[u].result = "Panic"
        /\ Offers(u) = 0
        /\ received # <<>> /\ received[1].tag = "Success"

\* ---------------------------------------------------------------- C15
\* C15: in every step in which a monitor offers a reason while the channel is
\* full or closed, the channel is left as it was, the monitor has made that
\* one offer and no other, it is done after the step, and the step logs
\* nothing about the refusal (only the fault itself, and for a blocking unit
\* the end of its future).
C15_RefusedOfferIsDropped ==
    [][\A u \in UnitIds :
          (units'[u].offered # units[u].offered
              /\ (~receiverOpen \/ Len(channel) >= ChanCap))
          => /\ channel' = channel
             /\ units[u].offered = <<>>
             /\ Len(units'[u].offered) = 1
             /\ units[u].mon = "waiting"
             /\ units'[u].mon = "done"
             /\ receiverOpen' = receiverOpen
             /\ log' \ log \subseteq
                   MonitorLog("Panic", units[u].name, units[u].payload)
                     \cup BlockingLog("Panic", units[u].name)]_vars

\* The channel is open and full of other reasons, the coordinator took another
\* one, and the one offer the monitor made for its fault is in neither place:
\* it was refused and dropped.
C15_Witness ==
    \E u \in UnitIds :
        /\ units[u].kind = "spawn" /\ units[u].mon = "done"
        /\ units[u].result = "Panic" /\ Offers(u) = 1
        /\ receiverOpen
        /\ Len(channel) = ChanCap
        /\ units[u].offered[1] \notin {channel[i] : i \in 1..Len(channel)}
        /\ received # <<>> /\ received[1] # units[u].offered[1]

C17_AsyncGaugeNeverNegative ==
    /\ \A n \in Names :
          /\ asyncGauge[n] >= 0
          /\ AsyncDecs(Named(n)) <= AsyncIncs(Named(n))
          /\ asyncGauge[n] = AsyncIncs(Named(n)) - AsyncDecs(Named(n))
    /\ \A u \in UnitIds :
          /\ units[u].adec <= 1
          /\ units[u].adec <= units[u].ainc

\* A unit that incremented, was cancelled by the exit signal and decremented:
\* the gauge of its name is back at 0, with the engine torn down afterwards.
C17_Witness ==
    \E u \in UnitIds :
        /\ Async(u) /\ Ended(u) /\ units[u].result = "None"
        /\ units[u].ainc = 1 /\ units[u].adec = 1
        /\ asyncGauge[units[u].name] = 0
        /\ ~runtimeAlive

\* ---------------------------------------------------------------- C18
\* C18: the handle of an exit-coupled unit, once resolved, keeps the value it
\* resolved to; it is Some only if the unit's task returned a value, and None
\* only if the exit signal had fired when it resolved, so that no handle is
\* None while the signal is unfired.
C18_HandleResolvesOnceAndTruthfully ==
    /\ [][\A u \in UnitIds :
            (ExitCoupled(u) /\ units[u].result # "-")
                => units'[u].result = units[u].result]_vars
    /\ [](\A u \in UnitIds :
            ExitCoupled(u) =>
                /\ units[u].result = "Some" => units[u].task = "value"
                /\ units[u].result = "None"
                      => (units[u].sawExit /\ exitFired /\ ExitResolved(units[u].exit))
                /\ ~exitFired => units[u].result # "None")

\* A handle that resolved to the task's value before the signal fired and is
\* still that value after the firing.
C18_Witness ==
    \E u \in UnitIds :
        /\ units[u].kind = "spawn_handle" /\ Ended(u)
        /\ units[u].result = "Some" /\ units[u].task = "value"
        /\ ~units[u].sawExit /\ exitFired

\* ---------------------------------------------------------------- C19
\* The units of name n spawned by an async contract.
AsyncNamed(n) == {u \in Named(n) : Async(u)}

\* C19: the async gauge of a name is made of the increments and decrements of
\* the async units of that name and of nothing else; a step in which a
\* blocking unit is spawned or a monitor runs leaves every async gauge as it
\* was, and a blocking spawn leaves the blocking gauge and the histogram of
\* every other name as they were; a step in which spawn is called raises the
\* async gauge of its name by one (by nothing when the registry has no gauge
\* for the name) and no other, monitor or not.
C19_AsyncGaugeOnlyForUserTask ==
    /\ [](\A n \in Names : asyncGauge[n] = AsyncNet(AsyncNamed(n)))
    /\ [][\A u \in UnitIds :
            /\ (units[u].kind = "free" /\ units'[u].kind \in BlockingKinds)
                  => /\ asyncGauge' = asyncGauge
                     /\ \A n \in Names \ {units'[u].name} :
                           /\ blockingGauge'[n] = blockingGauge[n]
                           /\ histCount'[n] = histCount[n]
            /\ (units[u].mon = "waiting" /\ units'[u].mon # "waiting")
                  => asyncGauge' = asyncGauge
            /\ (units[u].kind = "free" /\ units'[u].kind = "spawn")
                  => /\ asyncGauge'[units'[u].name] - asyncGauge[units'[u].name]
                           = (IF units'[u].gaugeOk THEN 1 ELSE 0)
                     /\ \A n \in Names \ {units'[u].name} :
                           asyncGauge'[n] = asyncGauge[n]
                     /\ blockingGauge' = blockingGauge
                     /\ histCount' = histCount]_vars

\* A spawn whose monitor was spawned with it and has run: one increment, one
\* decrement, the gauge of the name at 0.
C19_Witness ==
    \E u \in UnitIds :
        /\ units[u].kind = "spawn" /\ units[u].mon = "done"
        /\ units[u].result = "Some"
        /\ units[u].ainc = 1 /\ units[u].adec = 1
        /\ asyncGauge[units[u].name] = 0
        /\ blockingGauge[units[u].name] = 0

====
